---- MODULE Spec2Model ----
(***************************************************************************)
(* A model of schemania: raw schemas are compiled into a tree of           *)
(* validators (schema.py), and the tree is applied to nested data          *)
(* (validator.py), giving normalized data, a ValidationError (error.py),   *)
(* or an exception of another class that escapes the call.                 *)
(***************************************************************************)
EXTENDS Integers, Sequences, FiniteSets, TLC

VARIABLES
    raw_schema,   \* argument of Schema(raw_schema); NoRaw when validators are built directly
    schema,       \* the Schema object: [validator, formatters], or NoSchema
    ids,          \* iteration order of a set of key validators (hash of object identity)
    data,         \* argument of the last validation call
    result,       \* outcome of the last construction or validation call
    pc,           \* "start", "ready", "failed", "done"
    calls         \* the frames of the validation calls that run concurrently

vars == <<raw_schema, schema, ids, data, result, pc, calls>>

-----------------------------------------------------------------------------
(* Bounds of the input universe. *)

MaxListLen == 3
MaxDictLen == 2
MaxDepth == 7
MaxChain == 2
MaxCalls == 2

-----------------------------------------------------------------------------
(* Python values.  A str is the sequence of its characters. *)

PyNone == [t |-> "NoneType"]
PyInt(n) == [t |-> "int", i |-> n]
\* bool is a subclass of int: True is 1 and False is 0
PyBool(b) == [t |-> "bool", i |-> IF b THEN 1 ELSE 0]
PyStr(s) == [t |-> "str", s |-> s]
PyList(l) == [t |-> "list", l |-> l]
PyDict(m) == [t |-> "dict", m |-> m]

EmptyDict == PyDict(<<>>)
Dict1(k, x) == PyDict([j \in {k} |-> x])

Ord(c) ==
    CASE c = " " -> 32
      [] c = "1" -> 49
      [] c = "a" -> 97
      [] c = "b" -> 98
      [] c = "e" -> 101
      [] c = "n" -> 110
      [] c = "t" -> 116
      [] c = "x" -> 120

SeqMin(S) == CHOOSE x \in S : \A y \in S : x <= y

\* str.__lt__: lexicographic by code point
StrLess(s, u) ==
    LET n == IF Len(s) < Len(u) THEN Len(s) ELSE Len(u)
        diff == {i \in 1..n : s[i] # u[i]}
    IN  IF diff = {} THEN Len(s) < Len(u)
        ELSE Ord(s[SeqMin(diff)]) < Ord(u[SeqMin(diff)])

\* the classes a value is an instance of (object left out)
Bases(type_) == IF type_ = "bool" THEN {"bool", "int"} ELSE {type_}

\* isinstance(data, type_)
IsInstance(d, type_) == type_ \in Bases(d.t)

\* a == b: numbers compare by value whatever their class
IsNumber(d) == d.t \in {"int", "bool"}
PyEq(a, b) == IF IsNumber(a) /\ IsNumber(b) THEN a.i = b.i ELSE a = b

\* hash(data) raises TypeError for list and dict
Hashable(d) == d.t \notin {"list", "dict"}

\* len(data); only called when HasLen(d)
HasLen(d) == d.t \in {"str", "list", "dict"}
PyLen(d) ==
    CASE d.t = "str" -> Len(d.s)
      [] d.t = "list" -> Len(d.l)
      [] d.t = "dict" -> Cardinality(DOMAIN d.m)

\* the < used by sorted() on the (key, value) tuples of a dict: keys are
\* distinct, so the keys alone decide; int and str do not compare
Comparable(K) ==
    \/ Cardinality(K) <= 1
    \/ \A j \in K : IsNumber(j)
    \/ \A j \in K : j.t = "str"
KeyLess(j, k) ==
    IF j = k THEN FALSE
    ELSE IF IsNumber(j) THEN j.i < k.i ELSE StrLess(j.s, k.s)
\* variant: the keys are taken in descending order
SortedKeysDescending(K) ==
    [n \in 1..Cardinality(K) |->
        CHOOSE k \in K : Cardinality({j \in K : KeyLess(k, j)}) = n - 1]

SortedKeys(K) ==
    [n \in 1..Cardinality(K) |->
        CHOOSE k \in K : Cardinality({j \in K : KeyLess(j, k)}) = n - 1]

-----------------------------------------------------------------------------
(* Callables and patterns used in raw schemas. *)

IsSpace(c) == c = " "
IsDigit(c) == c = "1"
IsLower(c) == c \in {"a", "b", "e", "n", "t", "x"}

RECURSIVE LStrip(_)
LStrip(s) == IF s # <<>> /\ IsSpace(Head(s)) THEN LStrip(Tail(s)) ELSE s
RECURSIVE RStrip(_)
RStrip(s) ==
    IF s # <<>> /\ IsSpace(s[Len(s)]) THEN RStrip(SubSeq(s, 1, Len(s) - 1)) ELSE s
Strip(s) == RStrip(LStrip(s))

RECURSIVE ParseDigits(_)
ParseDigits(s) ==
    IF s = <<>> THEN 0
    ELSE 10 * ParseDigits(SubSeq(s, 1, Len(s) - 1)) + (Ord(s[Len(s)]) - 48)

\* func(data), for lambda string: string.strip(), lambda string: int(string)
\* and lambda value: [value]: [ok |-> TRUE, value] or [ok |-> FALSE, exception]
Returned(x) == [ok |-> TRUE, value |-> x]
Raised(e) == [ok |-> FALSE, exception |-> e]
CallFunc(func, d) ==
    CASE func = "strip" ->
            IF d.t = "str" THEN Returned(PyStr(Strip(d.s))) ELSE Raised("AttributeError")
      [] func = "int" ->
            IF d.t = "int" THEN Returned(d)
            ELSE IF d.t = "bool" THEN Returned(PyInt(d.i))
            ELSE IF d.t = "str"
                 THEN IF Strip(d.s) # <<>> /\ \A i \in 1..Len(Strip(d.s)) : IsDigit(Strip(d.s)[i])
                      THEN Returned(PyInt(ParseDigits(Strip(d.s))))
                      ELSE Raised("ValueError")
                 ELSE Raised("TypeError")
      [] func = "wrap" -> Returned(PyList(<<d>>))

\* regex.match(data) is not None, for the patterns ^\d+$ and ^[a-z]+$
RegexMatch(regex, s) ==
    CASE regex = "^\\d+$" -> s # <<>> /\ \A i \in 1..Len(s) : IsDigit(s[i])
      [] regex = "^[a-z]+$" -> s # <<>> /\ \A i \in 1..Len(s) : IsLower(s[i])

-----------------------------------------------------------------------------
(* Raw schemas (schema.py): values, type tags, lists, dicts, patterns,     *)
(* functions and the marker classes.  A raw dict keeps its insertion order.*)

RawLiteral(x) == [r |-> "literal", value |-> x]
RawType(type_) == [r |-> "type", type |-> type_]
RawList(items) == [r |-> "list", items |-> items]
RawDict(items) == [r |-> "dict", items |-> items]
RawRegex(pattern) == [r |-> "regex", pattern |-> pattern]
RawFunction(func) == [r |-> "function", func |-> func]
RawNone == [r |-> "None"]
Length(min_length, max_length) ==
    [r |-> "Length", min_length |-> min_length, max_length |-> max_length]
Optional(raw) == [r |-> "Optional", raw_schema |-> raw]
Exclusive(raw, exclusion_group) ==
    [r |-> "Exclusive", raw_schema |-> raw, exclusion_group |-> exclusion_group]
Self == [r |-> "Self"]
RawAll(raw_schemas) == [r |-> "All", raw_schemas |-> raw_schemas]
RawAny(raw_schemas) == [r |-> "Any", raw_schemas |-> raw_schemas]

-----------------------------------------------------------------------------
(* Validators (validator.py): the fields each __init__ sets.  The schema   *)
(* back reference is passed to Validate instead of being stored.           *)

LiteralValidator(literal, optional) ==
    [kind |-> "Literal", optional |-> optional, literal |-> literal]
TypeValidator(type_, optional) ==
    [kind |-> "Type", optional |-> optional, type |-> type_]
ListValidator(element_validator) ==
    [kind |-> "List", optional |-> FALSE, type |-> "list",
     element_validator |-> element_validator]
\* validators: sequence of [key, value] validator pairs, in dict order
DictValidator(validators) ==
    [kind |-> "Dict", optional |-> FALSE, type |-> "dict", validators |-> validators]
RegexValidator(regex, optional) ==
    [kind |-> "Regex", optional |-> optional, type |-> "str", regex |-> regex]
SelfValidator == [kind |-> "Self", optional |-> FALSE]
AllValidator(validators, optional) ==
    [kind |-> "All", optional |-> optional, validators |-> validators]
AnyValidator(validators, optional) ==
    [kind |-> "Any", optional |-> optional, validators |-> validators]
FunctionValidator(func) == [kind |-> "Function", optional |-> FALSE, func |-> func]
LengthValidator(min_length, max_length) ==
    [kind |-> "Length", optional |-> FALSE,
     min_length |-> min_length, max_length |-> max_length]

Pair(k, v) == [key |-> k, value |-> v]

-----------------------------------------------------------------------------
(* Schema._compile: Returned(validator), or Raised(exception class).       *)

\* validator.attributes[name] = value
SetAttribute(validator, name, value) ==
    IF "attributes" \in DOMAIN validator
    THEN Returned([validator EXCEPT !.attributes = [n \in (DOMAIN @) \cup {name} |->
                        IF n = name THEN value ELSE @[n]]])
    ELSE Raised("AttributeError")

\* the first exception raised while a sequence of sub-schemas is compiled
FirstRaised(compiled) ==
    LET bad == {i \in 1..Len(compiled) : ~compiled[i].ok}
    IN  IF bad = {} THEN 0 ELSE SeqMin(bad)

CompileOptional(inner) ==
    IF ~inner.ok THEN inner ELSE SetAttribute(inner.value, "optional", TRUE)

CompileExclusive(inner, exclusion_group) ==
    IF ~inner.ok THEN inner
    ELSE SetAttribute(inner.value, "exclusion_group", exclusion_group)

RECURSIVE Compile(_)
Compile(raw) ==
    CASE raw.r = "literal" -> Returned(LiteralValidator(raw.value, FALSE))
      [] raw.r = "type" ->
            IF raw.type \in {"str", "int"}
            THEN Returned(TypeValidator(raw.type, FALSE))
            ELSE Raised("ValueError")
      [] raw.r = "list" ->
            IF Len(raw.items) # 1 THEN Raised("AssertionError")
            ELSE LET element == Compile(raw.items[1])
                 IN  IF element.ok THEN Returned(ListValidator(element.value))
                     ELSE element
      [] raw.r = "dict" ->
            \* key and value of each item are compiled in turn
            LET n == Len(raw.items)
                compiled == [i \in 1..(2 * n) |->
                                Compile(raw.items[(i + 1) \div 2][2 - (i % 2)])]
                bad == FirstRaised(compiled)
            IN  IF bad # 0 THEN compiled[bad]
                ELSE Returned(DictValidator(
                        [i \in 1..n |-> Pair(compiled[2 * i - 1].value,
                                             compiled[2 * i].value)]))
      [] raw.r = "regex" -> Returned(RegexValidator(raw.pattern, FALSE))
      [] raw.r = "function" -> Returned(FunctionValidator(raw.func))
      [] raw.r = "Length" ->
            Returned(LengthValidator(raw.min_length, raw.max_length))
      [] raw.r = "Optional" -> CompileOptional(Compile(raw.raw_schema))
      [] raw.r = "Exclusive" ->
            CompileExclusive(Compile(raw.raw_schema), raw.exclusion_group)
      [] raw.r \in {"All", "Any"} ->
            LET compiled == [i \in 1..Len(raw.raw_schemas) |->
                                Compile(raw.raw_schemas[i])]
                bad == FirstRaised(compiled)
                validators == [i \in 1..Len(compiled) |-> compiled[i].value]
            IN  IF bad # 0 THEN compiled[bad]
                ELSE IF raw.r = "All" THEN Returned(AllValidator(validators, FALSE))
                ELSE Returned(AnyValidator(validators, FALSE))
      [] raw.r = "Self" -> Returned(SelfValidator)
      [] OTHER -> Raised("ValueError")

-----------------------------------------------------------------------------
(* Errors (error.py).  Every error starts with an empty path.              *)

ValidationError(kind, validator, d) ==
    [kind |-> kind, validator |-> validator, data |-> d, path |-> <<>>]
ValidationLiteralError(validator, d) == ValidationError("Literal", validator, d)
ValidationTypeError(validator, d) == ValidationError("Type", validator, d)
ValidationMatchError(validator, d) == ValidationError("Match", validator, d)
ValidationLengthError(validator, d) == ValidationError("Length", validator, d)
ValidationUnknownKeyError(validator, key) ==
    [kind |-> "UnknownKey", validator |-> validator, key |-> key, path |-> <<>>]
ValidationMissingKeyError(validator, key_validator) ==
    [kind |-> "MissingKey", validator |-> validator,
     key_validator |-> key_validator, path |-> <<>>]
ValidationMultipleError(validator, d, errors) ==
    [kind |-> "Multiple", validator |-> validator, data |-> d, path |-> <<>>,
     errors |-> errors]
ValidationFunctionError(validator, d, exception) ==
    [kind |-> "Function", validator |-> validator, data |-> d, path |-> <<>>,
     exception |-> exception]
ValidationExclusiveError(validator, exclusion_group) ==
    [kind |-> "Exclusive", validator |-> validator,
     exclusion_group |-> exclusion_group, path |-> <<>>]

\* error.path.appendleft(fragment)
AppendLeft(error, fragment) == [error EXCEPT !.path = <<fragment>> \o @]

(* Outcome of a validate call: the returned data, a raised ValidationError, *)
(* or a raised exception of another class.                                  *)
Ok(d) == [st |-> "ok", data |-> d]
Err(error) == [st |-> "err", error |-> error]
Exc(exception) == [st |-> "exc", exception |-> exception]

-----------------------------------------------------------------------------
(* Leaf validators (validator.py). *)

\* variant: the literal is compared by class and value together
LiteralValidateStrict(v, d) ==
    IF d # v.literal THEN Err(ValidationLiteralError(v, d)) ELSE Ok(d)

LiteralValidate(v, d) ==
    IF ~PyEq(d, v.literal) THEN Err(ValidationLiteralError(v, d)) ELSE Ok(d)

\* variant: the exact class is required (type(data) is not self.type)
TypeValidateExact(v, d) ==
    IF d.t # v.type THEN Err(ValidationTypeError(v, d)) ELSE Ok(d)

TypeValidate(v, d) ==
    IF ~IsInstance(d, v.type) THEN Err(ValidationTypeError(v, d)) ELSE Ok(d)

\* variant: data that is not a string is reported as a mismatch
RegexValidateMatchOnly(v, d) ==
    IF ~IsInstance(d, v.type) THEN Err(ValidationMatchError(v, d))
    ELSE IF ~RegexMatch(v.regex, d.s) THEN Err(ValidationMatchError(v, d))
    ELSE Ok(d)

RegexValidate(v, d) ==
    IF ~IsInstance(d, v.type) THEN Err(ValidationTypeError(v, d))
    ELSE IF ~RegexMatch(v.regex, d.s) THEN Err(ValidationMatchError(v, d))
    ELSE Ok(d)

\* variant: the exception of the function is not caught
FunctionValidateNoCatch(v, d) ==
    LET called == CallFunc(v.func, d)
    IN  IF called.ok THEN Ok(called.value) ELSE Exc(called.exception)

FunctionValidate(v, d) ==
    LET called == CallFunc(v.func, d)
    IN  IF called.ok THEN Ok(called.value)
        ELSE Err(ValidationFunctionError(v, d, called.exception))

\* variant: the upper bound is exclusive
LengthValidateExclusive(v, d) ==
    IF ~HasLen(d) THEN Exc("TypeError")
    ELSE IF v.min_length # PyNone /\ PyLen(d) < v.min_length.i
         THEN Err(ValidationLengthError(v, d))
    ELSE IF v.max_length # PyNone /\ PyLen(d) >= v.max_length.i
         THEN Err(ValidationLengthError(v, d))
    ELSE Ok(d)

LengthValidate(v, d) ==
    IF ~HasLen(d) THEN Exc("TypeError")
    ELSE IF v.min_length # PyNone /\ PyLen(d) < v.min_length.i
         THEN Err(ValidationLengthError(v, d))
    ELSE IF v.max_length # PyNone /\ PyLen(d) > v.max_length.i
         THEN Err(ValidationLengthError(v, d))
    ELSE Ok(d)

-----------------------------------------------------------------------------
(* ListValidator.validate *)

ListStart == [new_data |-> <<>>, errors |-> <<>>, exc |-> ""]

\* variant: the loop stops collecting after the first failing element
ListStepFirstOnly(acc, index, res) ==
    IF acc.exc # "" THEN acc
    ELSE CASE res.st = "ok" -> [acc EXCEPT !.new_data = Append(@, res.data)]
           [] res.st = "err" ->
                IF acc.errors # <<>> THEN acc
                ELSE [acc EXCEPT !.errors = Append(@, AppendLeft(res.error, PyInt(index)))]
           [] res.st = "exc" -> [acc EXCEPT !.exc = res.exception]

\* variant: the validated elements are inserted at the front of new_data
ListStepPrepend(acc, index, res) ==
    IF acc.exc # "" THEN acc
    ELSE CASE res.st = "ok" -> [acc EXCEPT !.new_data = <<res.data>> \o @]
           [] res.st = "err" ->
                [acc EXCEPT !.errors = Append(@, AppendLeft(res.error, PyInt(index)))]
           [] res.st = "exc" -> [acc EXCEPT !.exc = res.exception]

\* one iteration of the loop over enumerate(data); res is the outcome of
\* element_validator.validate(element)
ListStep(acc, index, res) ==
    IF acc.exc # "" THEN acc
    ELSE CASE res.st = "ok" -> [acc EXCEPT !.new_data = Append(@, res.data)]
           [] res.st = "err" ->
                [acc EXCEPT !.errors = Append(@, AppendLeft(res.error, PyInt(index)))]
           [] res.st = "exc" -> [acc EXCEPT !.exc = res.exception]

RECURSIVE ListLoop(_, _, _)
ListLoop(results, i, acc) ==
    IF i > Len(results) THEN acc
    ELSE ListLoop(results, i + 1, ListStep(acc, i - 1, results[i]))

ListReduce(v, d, acc) ==
    IF acc.exc # "" THEN Exc(acc.exc)
    ELSE IF acc.errors # <<>>
         THEN IF Len(acc.errors) = 1 THEN Err(acc.errors[1])
              ELSE Err(ValidationMultipleError(v, d, acc.errors))
    ELSE Ok(PyList(acc.new_data))

-----------------------------------------------------------------------------
(* DictValidator.validate *)

\* variant: optional key validators are tracked too
NotMatchedAll(v) == 1..Len(v.validators)

\* the key validators tracked for the missing-key check, by position
NotMatchedStart(v) == {j \in 1..Len(v.validators) : ~v.validators[j].key.optional}

DictStart(v) ==
    [new_data |-> <<>>, errors |-> <<>>, exc |-> "",
     key_validators_not_matched |-> NotMatchedStart(v)]

\* variant: the key is stored in place of the value
SetItemKey(m, k, x) == [j \in (DOMAIN m) \cup {k} |-> IF j = k THEN k ELSE m[j]]

\* new_data[new_key] = new_value
SetItem(m, k, x) == [j \in (DOMAIN m) \cup {k} |-> IF j = k THEN x ELSE m[j]]

\* variant: the last key validator that does not reject the key wins
FirstAcceptingLast(keyres) ==
    LET hit == {j \in 1..Len(keyres) : keyres[j].st # "err"}
    IN  IF hit = {} THEN 0 ELSE CHOOSE j \in hit : \A i \in hit : i <= j

\* the position of the first key validator that does not reject the key
FirstAccepting(keyres) ==
    LET hit == {j \in 1..Len(keyres) : keyres[j].st # "err"}
    IN  IF hit = {} THEN 0 ELSE SeqMin(hit)

\* variant: a key that no key validator accepts is skipped silently
UnknownKeySkipped(v, acc, key) == acc

UnknownKey(v, acc, key) ==
    [acc EXCEPT !.errors = Append(@, ValidationUnknownKeyError(v, key))]

\* variant: the key validator counts as matched only when the value is
\* accepted too
KeyMatchedOnSuccess(acc, j, key, new_key, valres) ==
    CASE valres.st = "exc" -> [acc EXCEPT !.exc = valres.exception]
      [] valres.st = "err" ->
            [acc EXCEPT !.errors = Append(@, AppendLeft(valres.error, key))]
      [] valres.st = "ok" ->
            IF Hashable(new_key)
            THEN [acc EXCEPT !.key_validators_not_matched = @ \ {j},
                             !.new_data = SetItem(@, new_key, valres.data)]
            ELSE [acc EXCEPT !.exc = "TypeError"]

\* the else branch of the try around key_validator.validate(key), and the
\* validation of the value; j is the position of the key validator
KeyMatched(acc, j, key, new_key, valres) ==
    LET acc1 == [acc EXCEPT !.key_validators_not_matched = @ \ {j}]
    IN  CASE valres.st = "exc" -> [acc1 EXCEPT !.exc = valres.exception]
          [] valres.st = "err" ->
                [acc1 EXCEPT !.errors = Append(@, AppendLeft(valres.error, key))]
          [] valres.st = "ok" ->
                IF Hashable(new_key)
                THEN [acc1 EXCEPT !.new_data = SetItem(@, new_key, valres.data)]
                ELSE [acc1 EXCEPT !.exc = "TypeError"]

\* one iteration of the loop over sorted(data.items()); keyres[j] and
\* valres[j] are the outcomes of the j-th key and value validators
DictStep(v, acc, key, keyres, valres) ==
    IF acc.exc # "" THEN acc
    ELSE LET j == FirstAccepting(keyres)
         IN  IF j = 0 THEN UnknownKey(v, acc, key)
             ELSE IF keyres[j].st = "exc" THEN [acc EXCEPT !.exc = keyres[j].exception]
             ELSE KeyMatched(acc, j, key, keyres[j].data, valres[j])

\* iteration over the set key_validators_not_matched: in the order of ids
SetOrder(S, order) ==
    [n \in 1..Cardinality(S) |->
        CHOOSE j \in S : Cardinality({k \in S : order[k] < order[j]}) = n - 1]

MissingKeys(v, acc, order) ==
    IF acc.exc # "" THEN acc
    ELSE [acc EXCEPT !.errors = @ \o
            [n \in 1..Cardinality(acc.key_validators_not_matched) |->
                ValidationMissingKeyError(v,
                    v.validators[SetOrder(acc.key_validators_not_matched, order)[n]].key)]]

DictReduce(v, d, acc) ==
    IF acc.exc # "" THEN Exc(acc.exc)
    ELSE IF acc.errors # <<>>
         THEN IF Len(acc.errors) = 1 THEN Err(acc.errors[1])
              ELSE Err(ValidationMultipleError(v, d, acc.errors))
    ELSE Ok(PyDict(acc.new_data))

-----------------------------------------------------------------------------
(* AllValidator.validate and AnyValidator.validate *)

ChainStart(d) == [data |-> d, errors |-> <<>>, exc |-> ""]

\* variant: the loop stops running sub-validators after the first failure
AllStepStopAtFailure(acc, res) ==
    IF acc.errors # <<>> THEN acc
    ELSE CASE res.st = "ok" -> [acc EXCEPT !.data = res.data]
           [] res.st = "err" -> [acc EXCEPT !.errors = Append(@, res.error)]
           [] res.st = "exc" -> [acc EXCEPT !.exc = res.exception]

\* one iteration of the loop of AllValidator.validate
AllStep(acc, res) ==
    CASE res.st = "ok" -> [acc EXCEPT !.data = res.data]
      [] res.st = "err" -> [acc EXCEPT !.errors = Append(@, res.error)]
      [] res.st = "exc" -> [acc EXCEPT !.exc = res.exception]

\* variant: the collected errors are always wrapped in an aggregate
AllReduceAlwaysWrap(v, acc) ==
    IF acc.exc # "" THEN Exc(acc.exc)
    ELSE IF acc.errors # <<>>
         THEN Err(ValidationMultipleError(v, acc.data, acc.errors))
    ELSE Ok(acc.data)

AllReduce(v, acc) ==
    IF acc.exc # "" THEN Exc(acc.exc)
    ELSE IF acc.errors # <<>>
         THEN IF Len(acc.errors) = 1 THEN Err(acc.errors[1])
              ELSE Err(ValidationMultipleError(v, acc.data, acc.errors))
    ELSE Ok(acc.data)

\* one iteration of the loop of AnyValidator.validate
AnyStep(acc, res) ==
    CASE res.st = "ok" -> [acc EXCEPT !.data = res.data]
      [] res.st = "err" -> [acc EXCEPT !.errors = Append(@, res.error)]
      [] res.st = "exc" -> [acc EXCEPT !.exc = res.exception]

\* variant: a single error is raised unwrapped, as AllValidator does
AnyReduceUnwrap(v, acc) ==
    IF acc.exc # "" THEN Exc(acc.exc)
    ELSE IF Len(acc.errors) = Len(v.validators)
         THEN IF Len(acc.errors) = 1 THEN Err(acc.errors[1])
              ELSE Err(ValidationMultipleError(v, acc.data, acc.errors))
    ELSE Ok(acc.data)

AnyReduce(v, acc) ==
    IF acc.exc # "" THEN Exc(acc.exc)
    ELSE IF Len(acc.errors) = Len(v.validators)
         THEN Err(ValidationMultipleError(v, acc.data, acc.errors))
    ELSE Ok(acc.data)

-----------------------------------------------------------------------------
(* validate, for every validator class.  depth is the number of frames     *)
(* left before the interpreter raises RecursionError.                      *)

RECURSIVE Validate(_, _, _, _, _)
RECURSIVE DictLoop(_, _, _, _, _, _, _, _)
RECURSIVE ChainLoop(_, _, _, _, _, _)

Validate(sch, order, v, d, depth) ==
    IF depth = 0 THEN Exc("RecursionError")
    ELSE CASE v.kind = "Literal" -> LiteralValidate(v, d)
           [] v.kind = "Type" -> TypeValidate(v, d)
           [] v.kind = "Regex" -> RegexValidate(v, d)
           [] v.kind = "Function" -> FunctionValidate(v, d)
           [] v.kind = "Length" -> LengthValidate(v, d)
           [] v.kind = "Self" -> Validate(sch, order, sch.validator, d, depth - 1)
           [] v.kind = "List" ->
                IF ~IsInstance(d, "list") THEN Err(ValidationTypeError(v, d))
                ELSE ListReduce(v, d,
                        ListLoop([i \in 1..Len(d.l) |->
                                    Validate(sch, order, v.element_validator, d.l[i], depth - 1)],
                                 1, ListStart))
           [] v.kind = "Dict" ->
                IF ~IsInstance(d, "dict") THEN Err(ValidationTypeError(v, d))
                ELSE IF ~Comparable(DOMAIN d.m) THEN Exc("TypeError")
                ELSE DictReduce(v, d,
                        MissingKeys(v,
                            DictLoop(sch, order, v, d, SortedKeys(DOMAIN d.m), 1,
                                     DictStart(v), depth),
                            order))
           [] v.kind \in {"All", "Any"} ->
                LET acc == ChainLoop(sch, order, v, 1, ChainStart(d), depth)
                IN  IF v.kind = "All" THEN AllReduce(v, acc) ELSE AnyReduce(v, acc)

DictLoop(sch, order, v, d, keys, i, acc, depth) ==
    IF i > Len(keys) THEN acc
    ELSE LET key == keys[i]
             keyres == [j \in 1..Len(v.validators) |->
                           Validate(sch, order, v.validators[j].key, key, depth - 1)]
             valres == [j \in 1..Len(v.validators) |->
                           Validate(sch, order, v.validators[j].value, d.m[key], depth - 1)]
         IN  DictLoop(sch, order, v, d, keys, i + 1,
                      DictStep(v, acc, key, keyres, valres), depth)

ChainLoop(sch, order, v, i, acc, depth) ==
    IF i > Len(v.validators) \/ acc.exc # "" THEN acc
    ELSE LET res == Validate(sch, order, v.validators[i], acc.data, depth - 1)
         IN  ChainLoop(sch, order, v, i + 1,
                       IF v.kind = "All" THEN AllStep(acc, res) ELSE AnyStep(acc, res),
                       depth)

-----------------------------------------------------------------------------
(* The inputs: raw schemas, directly constructed validators, and data.     *)

Sa == PyStr(<<"a">>)
Sb == PyStr(<<"b">>)
S1 == PyStr(<<"1">>)
Sempty == PyStr(<<>>)
Spad1 == PyStr(<<" ", "1">>)
Spada == PyStr(<<" ", "a">>)
I1 == PyInt(1)
I2 == PyInt(2)
BTrue == PyBool(TRUE)
Snext == PyStr(<<"n", "e", "x", "t">>)

RawStr == RawType("str")
RawInt == RawType("int")
RawA == RawLiteral(Sa)
RawB == RawLiteral(Sb)
RawStrip == RawFunction("strip")
RawToInt == RawFunction("int")
RawMin1 == Length(I1, PyNone)
\* {'a': str, Optional('next'): Self}
RawChain == RawDict(<<<<RawA, RawStr>>, <<Optional(RawLiteral(Snext)), Self>>>>)

LeafRaws ==
    {RawA, RawLiteral(I1), RawLiteral(BTrue), RawStr, RawInt, RawRegex("^\\d+$"), RawRegex("^[a-z]+$"),
     RawStrip, RawToInt, RawMin1, Length(PyNone, I1), Length(I1, I2), Self, RawNone,
     RawType("list"), Optional(RawStr), Exclusive(RawStr, "g")}

ListRaws ==
    {RawList(<<x>>) : x \in {RawStr, RawInt, RawToInt, RawMin1, RawList(<<RawStr>>), RawNone}}
    \cup {RawList(<<>>), RawList(<<RawStr, RawInt>>)}

DictValueRaws == {RawStr, RawToInt, Self}
DictKeyRaws == {<<RawA>>, <<RawB>>, <<RawStr>>, <<RawStrip>>,
                <<RawA, RawB>>, <<RawB, RawA>>, <<RawA, RawStr>>, <<RawStr, RawA>>,
                <<RawStrip, RawA>>}

DictRaws ==
    {RawDict([i \in 1..Len(ks) |-> <<ks[i], vs[i]>>]) :
        ks \in DictKeyRaws, vs \in [1..2 -> DictValueRaws]}
    \cup {RawDict(<<>>),
          RawDict(<<<<RawMin1, RawStr>>>>),
          RawDict(<<<<RawToInt, RawStr>>>>),
          RawDict(<<<<RawFunction("wrap"), RawStr>>>>),
          RawDict(<<<<Optional(RawA), RawStr>>>>),
          RawDict(<<<<RawA, RawStr>>, <<Optional(RawB), Self>>>>),
          RawChain,
          RawDict(<<<<Exclusive(RawA, "g"), RawStr>>, <<Exclusive(RawB, "g"), RawStr>>>>),
          RawDict(<<<<Exclusive(RawA, "g"), RawStr>>, <<RawList(<<>>), RawStr>>>>)}

ChainRaws == {RawStr, RawInt, RawA, RawStrip, RawToInt, RawMin1}

AllAnyRaws ==
    {RawAll(subs) : subs \in {<<>>} \cup [1..1 -> ChainRaws] \cup [1..2 -> ChainRaws]}
    \cup {RawAny(subs) : subs \in {<<>>} \cup [1..1 -> ChainRaws] \cup [1..2 -> ChainRaws]}
    \cup {RawAny(<<RawStrip, RawToInt, RawA>>), RawAll(<<RawInt, RawA, RawMin1>>),
          RawAll(<<RawStrip, RawInt, RawA>>),
          RawAny(<<Self, RawStr>>), RawAll(<<RawStr, Optional(RawA)>>)}

RawSchemas == LeafRaws \cup ListRaws \cup DictRaws \cup AllAnyRaws

\* the validator of {'a': str, Optional('next'): Self}, built with the
\* constructors
ChainValidator ==
    DictValidator(<<Pair(LiteralValidator(Sa, FALSE), TypeValidator("str", FALSE)),
                    Pair(LiteralValidator(Snext, TRUE), SelfValidator)>>)

\* validators built with the constructors, as the validator tests do
DirectValidators ==
    {DictValidator(<<Pair(LiteralValidator(Sa, TRUE), TypeValidator("str", FALSE))>>),
     DictValidator(<<Pair(LiteralValidator(Sa, FALSE), TypeValidator("str", FALSE)),
                     Pair(LiteralValidator(Sb, TRUE), TypeValidator("int", FALSE))>>),
     DictValidator(<<Pair(TypeValidator("str", TRUE), TypeValidator("str", FALSE)),
                     Pair(TypeValidator("int", FALSE), TypeValidator("int", FALSE))>>),
     DictValidator(<<Pair(LiteralValidator(Sa, TRUE), TypeValidator("str", FALSE)),
                     Pair(RegexValidator("^[a-z]+$", TRUE), TypeValidator("int", FALSE))>>),
     TypeValidator("list", FALSE),
     TypeValidator("dict", FALSE),
     TypeValidator("bool", FALSE),
     ChainValidator,
     ListValidator(TypeValidator("dict", FALSE))}

Scalars == {PyNone, I1, I2, BTrue, Sempty, Sa, Sb, S1, Spad1, Spada}

ListElements == {Sa, I1, Spad1, PyList(<<>>)}
Lists == {PyList(l) : l \in UNION {[1..n -> ListElements] : n \in 0..MaxListLen}}

DictKeys == {Sa, Sb, Spada, I1}
DictValues == {Sa, I1, Spad1, Dict1(Sa, Sa), Dict1(Sa, I1)}
Dicts ==
    {PyDict(m) : m \in UNION {[K -> DictValues] :
                        K \in {J \in SUBSET DictKeys : Cardinality(J) <= MaxDictLen}}}

\* {'a': 'a', 'next': {'a': 'a', 'next': ... {'a': leaf}}} with n nested levels
RECURSIVE Chain(_, _)
Chain(n, leaf) ==
    IF n = 0 THEN Dict1(Sa, leaf)
    ELSE PyDict([k \in {Sa, Snext} |-> IF k = Sa THEN Sa ELSE Chain(n - 1, leaf)])
Chains == {Chain(n, leaf) : n \in 1..MaxChain, leaf \in {Sa, I1}}

Data == Scalars \cup Lists \cup Dicts \cup Chains

-----------------------------------------------------------------------------
(* The Schema object and the calls made on it. *)

DEFAULT_FORMATTERS ==
    [Exclusive |-> "default_exclusive_formatter",
     Function |-> "default_function_formatter",
     Length |-> "default_length_formatter",
     Literal |-> "default_literal_formatter",
     Match |-> "default_match_formatter",
     MissingKey |-> "default_missing_key_formatter",
     Multiple |-> "default_multiple_formatter",
     Type |-> "default_type_formatter",
     UnknownKey |-> "default_unknown_key_formatter"]

NoRaw == [r |-> "-"]
NoValidator == [kind |-> "-"]
NoSchema == [validator |-> NoValidator, formatters |-> <<>>]
NoData == [t |-> "-"]
NoResult == [st |-> "-"]

\* the largest number of key validators of a DictValidator in the tree
RECURSIVE Width(_)
Width(v) ==
    LET Max(S) == CHOOSE x \in S : \A y \in S : y <= x
    IN  CASE v.kind = "List" -> Width(v.element_validator)
          [] v.kind = "Dict" ->
                Max({Len(v.validators)}
                    \cup {Width(v.validators[j].key) : j \in 1..Len(v.validators)}
                    \cup {Width(v.validators[j].value) : j \in 1..Len(v.validators)})
          [] v.kind \in {"All", "Any"} ->
                Max({0} \cup {Width(v.validators[j]) : j \in 1..Len(v.validators)})
          [] OTHER -> 0

Init ==
    /\ raw_schema = NoRaw
    /\ schema = NoSchema
    /\ ids = <<>>
    /\ data = NoData
    /\ result = NoResult
    /\ pc = "start"
    /\ calls = <<>>

\* Schema(raw_schema)
SchemaInit(raw) ==
    /\ pc = "start"
    /\ raw_schema' = raw
    /\ data' = NoData
    /\ LET compiled == Compile(raw)
       IN  IF compiled.ok
           THEN /\ schema' = [validator |-> compiled.value,
                              formatters |-> DEFAULT_FORMATTERS]
                /\ ids' \in Permutations(1..Width(compiled.value))
                /\ result' = NoResult
                /\ pc' = "ready"
           ELSE /\ schema' = NoSchema
                /\ ids' = <<>>
                /\ result' = Exc(compiled.exception)
                /\ pc' = "failed"
    /\ UNCHANGED calls

\* a validator built with the constructors under a schema object
ConstructValidator(v) ==
    /\ pc = "start"
    /\ raw_schema' = NoRaw
    /\ data' = NoData
    /\ schema' = [validator |-> v, formatters |-> DEFAULT_FORMATTERS]
    /\ ids' \in Permutations(1..Width(v))
    /\ result' = NoResult
    /\ pc' = "ready"
    /\ UNCHANGED calls

\* variant: the call leaves a mark on the root validator
SchemaCallMarking(d) ==
    /\ pc = "ready"
    /\ data' = d
    /\ result' = Validate(schema, ids, schema.validator, d, MaxDepth)
    /\ pc' = "done"
    /\ schema' = [schema EXCEPT !.validator.optional = TRUE]
    /\ UNCHANGED <<raw_schema, ids, calls>>

\* schema(data)
SchemaCall(d) ==
    /\ pc = "ready"
    /\ data' = d
    /\ result' = Validate(schema, ids, schema.validator, d, MaxDepth)
    /\ pc' = "done"
    /\ UNCHANGED <<raw_schema, schema, ids, calls>>

\* the caller has taken the outcome; the schema is ready for the next call
CallReturn ==
    /\ pc = "done"
    /\ data' = NoData
    /\ result' = NoResult
    /\ pc' = "ready"
    /\ UNCHANGED <<raw_schema, schema, ids, calls>>

Next ==
    \/ \E raw \in RawSchemas : SchemaInit(raw)
    \/ \E v \in DirectValidators : ConstructValidator(v)
    \/ \E d \in Data : SchemaCall(d)
    \/ CallReturn

Spec == Init /\ [][Next]_vars

-----------------------------------------------------------------------------
(* Several validation calls running on one compiled Schema.  A call keeps  *)
(* the local variables of the root validator's validate in its own frame;  *)
(* a step of a call is the entry into validate, one iteration of its loop, *)
(* or its end.  The validation of an element, key, value or sub-schema     *)
(* inside an iteration reads the validator tree and its argument only.     *)

Calls == 1..MaxCalls

ConcRaws ==
    {RawStr,
     RawList(<<RawToInt>>),
     RawDict(<<<<RawA, RawStr>>, <<RawB, RawToInt>>>>),
     RawAll(<<RawStrip, RawInt, RawA>>),
     RawAny(<<RawStrip, RawToInt, RawA>>)}

ConcData ==
    {Sa, Spad1,
     PyList(<<Sa, Spad1, Sa>>),
     PyList(<<Spad1, I1>>),
     PyDict([k \in {Sa, Sb} |-> IF k = Sa THEN I1 ELSE Sa]),
     PyDict([k \in {Sa, Sb} |-> IF k = Sa THEN Sa ELSE Spad1])}

NoAcc == [exc |-> "-"]
IdleCall ==
    [pc |-> "idle", data |-> NoData, keys |-> <<>>, i |-> 0, acc |-> NoAcc,
     result |-> NoResult, overlapped |-> FALSE]

\* variant: the accumulators are kept on the validator, which the calls share
LocalsOnValidator(cs, c) ==
    IF cs[1].pc = "loop" THEN [cs[c] EXCEPT !.acc = cs[1].acc] ELSE cs[c]

\* the local variables of call c: data, new_data, errors and the loop position
Locals(cs, c) == cs[c]

\* the number of iterations of the loop of validate
LoopLen(v, f) ==
    CASE v.kind = "List" -> Len(f.data.l)
      [] v.kind = "Dict" -> Len(f.keys)
      [] v.kind \in {"All", "Any"} -> Len(v.validators)

CallDone(d, res) == [IdleCall EXCEPT !.pc = "done", !.data = d, !.result = res]
CallLoop(d, keys, acc) ==
    [IdleCall EXCEPT !.pc = "loop", !.data = d, !.keys = keys, !.i = 1, !.acc = acc]

\* call c enters schema(d): the statements of validate before its loop
CallBegin(c, d) ==
    /\ pc = "ready"
    /\ calls[c].pc = "idle"
    /\ LET v == schema.validator
       IN  calls' = [calls EXCEPT ![c] =
             CASE v.kind = "List" ->
                    IF ~IsInstance(d, "list") THEN CallDone(d, Err(ValidationTypeError(v, d)))
                    ELSE CallLoop(d, <<>>, ListStart)
               [] v.kind = "Dict" ->
                    IF ~IsInstance(d, "dict") THEN CallDone(d, Err(ValidationTypeError(v, d)))
                    ELSE IF ~Comparable(DOMAIN d.m) THEN CallDone(d, Exc("TypeError"))
                    ELSE CallLoop(d, SortedKeys(DOMAIN d.m), DictStart(v))
               [] v.kind \in {"All", "Any"} -> CallLoop(d, <<>>, ChainStart(d))
               [] OTHER -> CallDone(d, Validate(schema, ids, v, d, MaxDepth))]
    /\ UNCHANGED <<raw_schema, schema, ids, data, result, pc>>

\* one iteration of the loop of call c
CallStep(c) ==
    /\ pc = "ready"
    /\ calls[c].pc = "loop"
    /\ LET v == schema.validator
           f == Locals(calls, c)
           Child(w, x) == Validate(schema, ids, w, x, MaxDepth - 1)
           acc == CASE v.kind = "List" ->
                          ListStep(f.acc, f.i - 1, Child(v.element_validator, f.data.l[f.i]))
                     [] v.kind = "Dict" ->
                          DictStep(v, f.acc, f.keys[f.i],
                                   [j \in 1..Len(v.validators) |->
                                       Child(v.validators[j].key, f.keys[f.i])],
                                   [j \in 1..Len(v.validators) |->
                                       Child(v.validators[j].value, f.data.m[f.keys[f.i]])])
                     [] v.kind = "All" -> AllStep(f.acc, Child(v.validators[f.i], f.acc.data))
                     [] v.kind = "Any" -> AnyStep(f.acc, Child(v.validators[f.i], f.acc.data))
       IN  /\ f.i <= LoopLen(v, f)
           /\ f.acc.exc = ""
           /\ calls' = [calls EXCEPT ![c] =
                 [f EXCEPT !.acc = acc, !.i = @ + 1,
                           !.overlapped = @ \/ \E o \in Calls \ {c} :
                                                  calls[o].pc = "loop" /\ calls[o].i > 1]]
    /\ UNCHANGED <<raw_schema, schema, ids, data, result, pc>>

\* the statements of validate after its loop: call c returns or raises
CallEnd(c) ==
    /\ pc = "ready"
    /\ calls[c].pc = "loop"
    /\ LET v == schema.validator
           f == Locals(calls, c)
       IN  /\ f.i > LoopLen(v, f) \/ f.acc.exc # ""
           /\ calls' = [calls EXCEPT ![c] =
                 [f EXCEPT !.pc = "done",
                           !.result =
                               CASE v.kind = "List" -> ListReduce(v, f.data, f.acc)
                                 [] v.kind = "Dict" ->
                                      DictReduce(v, f.data, MissingKeys(v, f.acc, ids))
                                 [] v.kind = "All" -> AllReduce(v, f.acc)
                                 [] v.kind = "Any" -> AnyReduce(v, f.acc)]]
    /\ UNCHANGED <<raw_schema, schema, ids, data, result, pc>>

\* a compiled Schema, and no call started yet
InitConc ==
    /\ raw_schema \in ConcRaws
    /\ schema = [validator |-> Compile(raw_schema).value, formatters |-> DEFAULT_FORMATTERS]
    /\ ids \in Permutations(1..Width(schema.validator))
    /\ data = NoData
    /\ result = NoResult
    /\ pc = "ready"
    /\ calls = [c \in Calls |-> IdleCall]

NextConc ==
    \/ \E c \in Calls, d \in ConcData : CallBegin(c, d)
    \/ \E c \in Calls : CallStep(c)
    \/ \E c \in Calls : CallEnd(c)

SpecConc == InitConc /\ [][NextConc]_vars

-----------------------------------------------------------------------------
(* Properties.  They are stated on the state reached when a call has       *)
(* ended (pc = "done"): schema.validator is the root validator, data the   *)
(* argument and result the outcome.  Except for C1, whose subject is the   *)
(* exceptions of other classes, a property about the errors of a call      *)
(* covers the calls that return or raise a ValidationError (Ended).        *)

Root == schema.validator
Called == pc = "done"
\* the call ended by returning or by raising a ValidationError
Ended == Called /\ result.st \in {"ok", "err"}

\* what a sub-validator of the root does with a value
Sub(v, d) == Validate(schema, ids, v, d, MaxDepth - 1)

\* the errors the root validator reported: the sub-errors of the aggregate
\* it raised, or the one error it raised
RootErrors ==
    IF result.st # "err" THEN <<>>
    ELSE IF result.error.kind = "Multiple" /\ result.error.validator = Root
            /\ result.error.path = <<>>
         THEN result.error.errors
    ELSE <<result.error>>

Count(errors, P(_)) == Cardinality({n \in 1..Len(errors) : P(errors[n])})

\* the increasing enumeration of a set of integers
Increasing(S) ==
    [n \in 1..Cardinality(S) |-> CHOOSE i \in S : Cardinality({j \in S : j < i}) = n - 1]

(* C1: a validation call returns the normalized data or raises a           *)
(* ValidationError; no exception of another class escapes it.              *)
C1_OnlyValidationErrors == Called => result.st \in {"ok", "err"}

(* C2: in a mapping validation, every input key that no key validator      *)
(* accepts gives exactly one Unknown-key error carrying that key, with an  *)
(* empty path at the top level; the other input keys are still processed:  *)
(* every unaccepted key is reported, and so is every rejected value.       *)
Unaccepted ==
    {k \in DOMAIN data.m :
        \A j \in 1..Len(Root.validators) : Sub(Root.validators[j].key, k).st = "err"}
RejectedValue ==
    {k \in DOMAIN data.m \ Unaccepted :
        LET j == SeqMin({i \in 1..Len(Root.validators) :
                            Sub(Root.validators[i].key, k).st # "err"})
        IN  Sub(Root.validators[j].value, data.m[k]).st = "err"}
IsUnknown(k, e) == e.kind = "UnknownKey" /\ e.key = k
C2_UnknownKey ==
    (Ended /\ Root.kind = "Dict" /\ data.t = "dict") =>
        /\ \A k \in Unaccepted :
              /\ Count(RootErrors, LAMBDA e : IsUnknown(k, e)) = 1
              /\ \A n \in 1..Len(RootErrors) :
                    IsUnknown(k, RootErrors[n]) =>
                        RootErrors[n] = ValidationUnknownKeyError(Root, k)
        /\ \A k \in RejectedValue :
              Count(RootErrors, LAMBDA e : e.path # <<>> /\ e.path[1] = k) = 1
        /\ \A n \in 1..Len(RootErrors) :
              RootErrors[n].kind = "UnknownKey" /\ RootErrors[n].path = <<>>
                  => RootErrors[n].key \in Unaccepted
C2_Witness ==
    /\ Ended /\ Root.kind = "Dict" /\ data.t = "dict"
    /\ \E k \in Unaccepted : \E k2 \in RejectedValue : KeyLess(k, k2)
    /\ result.error.kind = "Multiple"

(* C3: after the input keys of a mapping are processed, every required     *)
(* key validator that matched no input key gives exactly one Missing-key   *)
(* error naming it, and an optional key validator never gives one.         *)
\* positions of the key validators that were the first to accept some key
Matched ==
    {j \in 1..Len(Root.validators) :
        \E k \in DOMAIN data.m :
            /\ Sub(Root.validators[j].key, k).st = "ok"
            /\ \A i \in 1..(j - 1) : Sub(Root.validators[i].key, k).st = "err"}
Unmatched == (1..Len(Root.validators)) \ Matched
IsMissing(kv, e) == e.kind = "MissingKey" /\ e.path = <<>> /\ e.key_validator = kv
C3_MissingKey ==
    (Ended /\ Root.kind = "Dict" /\ data.t = "dict") =>
        \A j \in 1..Len(Root.validators) :
            LET kv == Root.validators[j].key
                same == {i \in Unmatched : Root.validators[i].key = kv
                                            /\ ~Root.validators[i].key.optional}
            IN  /\ Count(RootErrors, LAMBDA e : IsMissing(kv, e)) = Cardinality(same)
                /\ \A n \in 1..Len(RootErrors) :
                      IsMissing(kv, RootErrors[n]) =>
                          RootErrors[n] = ValidationMissingKeyError(Root, kv)
C3_Witness ==
    /\ Ended /\ Root.kind = "Dict" /\ data.t = "dict"
    /\ \E j \in Unmatched : Root.validators[j].key.optional
    /\ \E j \in Unmatched :
          /\ ~Root.validators[j].key.optional
          /\ Count(RootErrors, LAMBDA e : IsMissing(Root.validators[j].key, e)) = 1

(* C4: a mapping whose key is wrapped in Optional compiles to the node of  *)
(* the unwrapped key with optional set to true, and data that lacks the    *)
(* key validates: Schema({Optional('a'): str})({}) returns {}.             *)
C4_OptionalKey ==
    raw_schema = RawDict(<<<<Optional(RawA), RawStr>>>>) =>
        /\ pc # "failed"
        /\ Root = DictValidator(<<Pair(LiteralValidator(Sa, TRUE),
                                       TypeValidator("str", FALSE))>>)
        /\ (Called /\ data = EmptyDict => result = Ok(EmptyDict))

(* C5: when the elements of a list fail at several indices, the aggregate  *)
(* holds one sub-error per failing index, in increasing index order, each  *)
(* with its index as first path fragment, and its data is the input list.  *)
Failing == {i \in 1..Len(data.l) : Sub(Root.element_validator, data.l[i]).st = "err"}
C5_ListAggregate ==
    (Ended /\ Root.kind = "List" /\ data.t = "list" /\ Cardinality(Failing) >= 2) =>
        /\ result.st = "err"
        /\ result.error.kind = "Multiple"
        /\ result.error.validator = Root
        /\ result.error.data = data
        /\ result.error.path = <<>>
        /\ Len(result.error.errors) = Cardinality(Failing)
        /\ \A n \in 1..Cardinality(Failing) :
              LET i == Increasing(Failing)[n]
              IN  /\ result.error.errors[n].path[1] = PyInt(i - 1)
                  /\ result.error.errors[n] =
                        AppendLeft(Sub(Root.element_validator, data.l[i]).error,
                                   PyInt(i - 1))
C5_Witness ==
    /\ Ended /\ Root.kind = "List" /\ data.t = "list"
    /\ Failing = {2, 3}
    /\ Len(data.l) = 3
    /\ result.error.kind = "Multiple"
    /\ Len(result.error.errors) = 2

(* C6: List, Dict and All validators return the built output when no     *)
(* error was collected, raise the error itself when exactly one was         *)
(* collected, and raise an aggregate of all of them, in the order they were *)
(* collected, when there are more; so an aggregate raised by one of these   *)
(* validators, at any depth, has at least two sub-errors.                   *)
RootCollected ==
    CASE Root.kind = "List" ->
            ListLoop([i \in 1..Len(data.l) |-> Sub(Root.element_validator, data.l[i])],
                     1, ListStart)
      [] Root.kind = "Dict" ->
            MissingKeys(Root,
                DictLoop(schema, ids, Root, data, SortedKeys(DOMAIN data.m), 1,
                         DictStart(Root), MaxDepth),
                ids)
      [] Root.kind = "All" -> ChainLoop(schema, ids, Root, 1, ChainStart(data), MaxDepth)
RootBuilt(acc) ==
    CASE Root.kind = "List" -> PyList(acc.new_data)
      [] Root.kind = "Dict" -> PyDict(acc.new_data)
      [] Root.kind = "All" -> acc.data
RootCollects ==
    /\ Ended
    /\ Root.kind \in {"List", "Dict", "All"}
    /\ Root.kind = "List" => data.t = "list"
    /\ Root.kind = "Dict" => data.t = "dict"
RECURSIVE Aggregates(_)
Aggregates(e) ==
    IF e.kind # "Multiple" THEN {}
    ELSE {e} \cup UNION {Aggregates(e.errors[n]) : n \in 1..Len(e.errors)}
C6_Reduction ==
    /\ RootCollects =>
          LET acc == RootCollected
          IN  /\ Len(acc.errors) = 0 => result = Ok(RootBuilt(acc))
              /\ Len(acc.errors) = 1 => result = Err(acc.errors[1])
              /\ Len(acc.errors) > 1 =>
                    /\ result.st = "err"
                    /\ result.error.kind = "Multiple"
                    /\ result.error.validator = Root
                    /\ result.error.path = <<>>
                    /\ result.error.errors = acc.errors
    /\ (Called /\ result.st = "err") =>
          \A e \in Aggregates(result.error) :
              e.validator.kind \in {"List", "Dict", "All"} => Len(e.errors) >= 2
C6_Witness ==
    /\ RootCollects
    /\ Root.kind = "All"
    /\ Len(Root.validators) = 2
    /\ Len(RootCollected.errors) = 1
    /\ result.st = "err"
    /\ result.error.kind # "Multiple"

(* C7: when the input mapping holds more than one key of the same          *)
(* exclusion group, validation fails with an Exclusive error naming the    *)
(* group.                                                                  *)
ExclusivePair ==
    RawDict(<<<<Exclusive(RawA, "g"), RawStr>>, <<Exclusive(RawB, "g"), RawStr>>>>)
RECURSIVE AllErrors(_)
AllErrors(e) ==
    IF e.kind # "Multiple" THEN {e}
    ELSE {e} \cup UNION {AllErrors(e.errors[n]) : n \in 1..Len(e.errors)}
C7_ExclusiveConflict ==
    raw_schema = ExclusivePair =>
        /\ pc # "failed"
        /\ (Called /\ data.t = "dict" /\ {Sa, Sb} \subseteq DOMAIN data.m) =>
              /\ result.st = "err"
              /\ \E e \in AllErrors(result.error) :
                    e.kind = "Exclusive" /\ e.exclusion_group = "g"

(* C8: exactly one key of an exclusion group must be present: with keys    *)
(* 'a' and 'b' in one group, data with neither fails with an Exclusive     *)
(* error raised directly, and data with exactly one valid member succeeds  *)
(* without a Missing-key error for the other.                              *)
C8_ExactlyOne ==
    raw_schema = ExclusivePair =>
        /\ pc # "failed"
        /\ (Called /\ data = EmptyDict) =>
              result.st = "err" /\ result.error.kind = "Exclusive"
        /\ (Called /\ data \in {Dict1(Sa, Sa), Dict1(Sb, Sa)}) => result = Ok(data)

(* C9: Any is not chained: when a sub-validator accepts the original       *)
(* input, the result of Any is the output of the first sub-validator, in   *)
(* declaration order, that accepts the original input.                     *)
Accepting == {i \in 1..Len(Root.validators) : Sub(Root.validators[i], data).st = "ok"}
C9_AnyFirstAccepting ==
    (Ended /\ Root.kind = "Any" /\ Accepting # {}) =>
        result = Ok(Sub(Root.validators[SeqMin(Accepting)], data).data)

(* C10: Any fails exactly when every sub-validator failed, and then raises *)
(* an aggregate of all their errors in declaration order, also when it has *)
(* a single sub-validator; when a sub-validator succeeds no error is       *)
(* raised.                                                                 *)
C10_AnyFails ==
    (Ended /\ Root.kind = "Any") =>
        LET outs == [i \in 1..Len(Root.validators) |-> Sub(Root.validators[i], data)]
        IN  /\ result.st = "err" <=> \A i \in 1..Len(outs) : outs[i].st = "err"
            /\ result.st = "err" =>
                  result.error = ValidationMultipleError(Root, data,
                                    [i \in 1..Len(outs) |-> outs[i].error])
C10_Witness ==
    /\ Ended /\ Root.kind = "Any"
    /\ Len(Root.validators) = 1
    /\ result.st = "err"
    /\ result.error.kind = "Multiple"
    /\ Len(result.error.errors) = 1

(* C11: All runs every sub-validator in order and does not stop at a       *)
(* failure; each sub-validator receives the output of the most recent      *)
(* successful one (the input data when none succeeded yet); with no        *)
(* failure the result is the last output, and with failures the raised     *)
(* error reports every failing sub-validator, in order.                    *)
\* the data the i-th sub-validator of the root receives
RECURSIVE AllInput(_)
AllInput(i) ==
    IF i = 1 THEN data
    ELSE LET prev == Sub(Root.validators[i - 1], AllInput(i - 1))
         IN  IF prev.st = "ok" THEN prev.data ELSE AllInput(i - 1)
AllOutcome(i) == Sub(Root.validators[i], AllInput(i))
AllFailing == {i \in 1..Len(Root.validators) : AllOutcome(i).st = "err"}
C11_AllChain ==
    (Ended /\ Root.kind = "All") =>
        /\ AllFailing = {} => result = Ok(AllInput(Len(Root.validators) + 1))
        /\ AllFailing # {} =>
              /\ result.st = "err"
              /\ RootErrors = [n \in 1..Cardinality(AllFailing) |->
                                  AllOutcome(Increasing(AllFailing)[n]).error]
C11_Witness ==
    /\ Ended /\ Root.kind = "All"
    /\ Len(Root.validators) = 3
    /\ AllInput(2) # data
    /\ AllFailing = {2, 3}
    /\ result.error.kind = "Multiple"
    /\ result.error.errors[1].data = AllInput(2)

(* C12: a Self node validates as the root validator does: the schema       *)
(* {'a': str, Optional('next'): Self} compiles, accepts the chains of any  *)
(* depth, and reports a failure of 'a' at depth n with the path of n       *)
(* 'next' fragments followed by 'a'.                                       *)
RECURSIVE NextPath(_)
NextPath(n) == IF n = 0 THEN <<Sa>> ELSE <<Snext>> \o NextPath(n - 1)
C12_SelfChain ==
    /\ raw_schema = RawChain => (pc # "failed" /\ Root = ChainValidator)
    /\ (Called /\ (raw_schema = RawChain \/ Root = ChainValidator)) =>
          \A n \in 0..MaxChain :
              /\ data = Chain(n, Sa) => result = Ok(data)
              /\ data = Chain(n, I1) =>
                    result = Err([ValidationTypeError(TypeValidator("str", FALSE), I1)
                                    EXCEPT !.path = NextPath(n)])

(* C13: every validation call terminates: the recursion of validate ends   *)
(* by itself, within the frames the data accounts for, for every schema    *)
(* the compiler accepts, Self anywhere included.  MaxDepth frames are more *)
(* than any data of the universe accounts for, so a call that runs out of  *)
(* them (RecursionError) is a call whose recursion does not end.           *)
C13_Terminates == Called => result # Exc("RecursionError")

(* C14: idempotence: when schema(data) returns out, schema(out) returns a  *)
(* value equal to out.                                                     *)
\* schema(out), the validation of the output of the call just made
Again == Validate(schema, ids, Root, result.data, MaxDepth)
C14_Idempotent == (Called /\ result.st = "ok") => Again = Ok(result.data)

(* C14, amended: for a schema without a FunctionTransform node, when       *)
(* schema(data) returns out, out equals data and schema(out) returns out.  *)
RECURSIVE HasFunction(_)
HasFunction(v) ==
    CASE v.kind = "Function" -> TRUE
      [] v.kind = "List" -> HasFunction(v.element_validator)
      [] v.kind = "Dict" ->
            \E j \in 1..Len(v.validators) :
                HasFunction(v.validators[j].key) \/ HasFunction(v.validators[j].value)
      [] v.kind \in {"All", "Any"} ->
            \E j \in 1..Len(v.validators) : HasFunction(v.validators[j])
      [] OTHER -> FALSE
C14_IdempotentNoFunction ==
    (Called /\ result.st = "ok" /\ ~HasFunction(Root)) =>
        /\ result.data = data
        /\ Again = Ok(result.data)
C14_Witness ==
    /\ Called /\ result.st = "ok" /\ ~HasFunction(Root)
    /\ Root.kind = "List"
    /\ Len(data.l) = 3
    /\ data.l[1] # data.l[3]
    /\ Again = Ok(data)

(* C15: a TypeCheck validator with type T accepts d exactly when d is an   *)
(* instance of T, subclasses included; it then returns d unchanged, and    *)
(* otherwise raises a Type error carrying d.                               *)
InstanceOf(d, type_) == d.t = type_ \/ (d.t = "bool" /\ type_ = "int")
C15_TypeCheck ==
    (Called /\ Root.kind = "Type") =>
        IF InstanceOf(data, Root.type) THEN result = Ok(data)
        ELSE result = Err([kind |-> "Type", validator |-> Root, data |-> data,
                           path |-> <<>>])
C15_Witness ==
    /\ Called /\ Root.kind = "Type"
    /\ Root.type = "int"
    /\ data = BTrue
    /\ result = Ok(BTrue)

(* C16: a Literal validator with literal L accepts d exactly when d equals *)
(* L by value; it then returns d unchanged, and otherwise raises a Literal *)
(* error carrying d.                                                       *)
EqualByValue(a, b) ==
    \/ a.t = "str" /\ b.t = "str" /\ a.s = b.s
    \/ a.t \in {"int", "bool"} /\ b.t \in {"int", "bool"} /\ a.i = b.i
C16_Literal ==
    (Called /\ Root.kind = "Literal") =>
        IF EqualByValue(data, Root.literal) THEN result = Ok(data)
        ELSE result = Err([kind |-> "Literal", validator |-> Root, data |-> data,
                           path |-> <<>>])
C16_Witness ==
    /\ Called /\ Root.kind = "Literal"
    /\ Root.literal = I1
    /\ data = BTrue
    /\ result = Ok(BTrue)

(* C17: a FunctionTransform validator calls its callable with the data:    *)
(* when the callable returns a value, that value is the result; when it    *)
(* raises, a Function error carrying the untransformed data and the        *)
(* exception is raised.  The callables of the model have no state, so the  *)
(* number of calls is not observable.                                      *)
C17_Function ==
    (Called /\ Root.kind = "Function") =>
        LET called == CallFunc(Root.func, data)
        IN  IF called.ok THEN result = Ok(called.value)
            ELSE result = Err([kind |-> "Function", validator |-> Root, data |-> data,
                               path |-> <<>>, exception |-> called.exception])
C17_Witness ==
    /\ Called /\ Root.kind = "Function"
    /\ Root.func = "int"
    /\ data = Spada
    /\ result.st = "err"
    /\ result.error.kind = "Function"
    /\ result.error.exception = "ValueError"
    /\ result.error.data = Spada

(* C18: for data that has a length, a LengthBound validator with bounds    *)
(* (min, max) raises a Length error exactly when min is set and            *)
(* len(data) < min, or max is set and len(data) > max; otherwise it        *)
(* returns the data unchanged.                                             *)
C18_Length ==
    (Called /\ Root.kind = "Length" /\ data.t \in {"str", "list", "dict"}) =>
        LET n == PyLen(data)
            below == Root.min_length # PyNone /\ n < Root.min_length.i
            above == Root.max_length # PyNone /\ n > Root.max_length.i
        IN  IF below \/ above
            THEN result = Err([kind |-> "Length", validator |-> Root, data |-> data,
                               path |-> <<>>])
            ELSE result = Ok(data)
C18_Witness ==
    /\ Called /\ Root.kind = "Length"
    /\ Root.min_length = I1 /\ Root.max_length = I2
    /\ data.t = "list"
    /\ Len(data.l) = 2
    /\ result = Ok(data)

(* C19: Schema construction compiles a raw schema by category: str/int     *)
(* value to Literal, str/int type to TypeCheck, one-element list to        *)
(* Sequence, dict to Mapping with the pairs kept, regex to Pattern,        *)
(* function to FunctionTransform, Length to LengthBound, Optional and      *)
(* Exclusive to the inner node marked, All to All, Any to Any, Self to     *)
(* Self; a list of another length, or any other shape, makes construction  *)
(* fail with an error that is not a ValidationError.                       *)
RECURSIVE Malformed(_)
Malformed(raw) ==
    CASE raw.r \in {"literal", "regex", "function", "Length", "Self"} -> FALSE
      [] raw.r = "type" -> raw.type \notin {"str", "int"}
      [] raw.r = "list" -> Len(raw.items) # 1 \/ Malformed(raw.items[1])
      [] raw.r = "dict" ->
            \E i \in 1..Len(raw.items) :
                Malformed(raw.items[i][1]) \/ Malformed(raw.items[i][2])
      [] raw.r \in {"Optional", "Exclusive"} -> Malformed(raw.raw_schema)
      [] raw.r \in {"All", "Any"} ->
            \E i \in 1..Len(raw.raw_schemas) : Malformed(raw.raw_schemas[i])
      [] OTHER -> TRUE
\* the inner node with the exclusion group marked on it
MarkedExclusive(v, group) ==
    [f \in (DOMAIN v) \cup {"exclusion_group"} |->
        IF f = "exclusion_group" THEN group ELSE v[f]]
RECURSIVE Expected(_)
Expected(raw) ==
    CASE raw.r = "literal" -> LiteralValidator(raw.value, FALSE)
      [] raw.r = "type" -> TypeValidator(raw.type, FALSE)
      [] raw.r = "list" -> ListValidator(Expected(raw.items[1]))
      [] raw.r = "dict" ->
            DictValidator([i \in 1..Len(raw.items) |->
                            Pair(Expected(raw.items[i][1]), Expected(raw.items[i][2]))])
      [] raw.r = "regex" -> RegexValidator(raw.pattern, FALSE)
      [] raw.r = "function" -> FunctionValidator(raw.func)
      [] raw.r = "Length" -> LengthValidator(raw.min_length, raw.max_length)
      [] raw.r = "Optional" -> [Expected(raw.raw_schema) EXCEPT !.optional = TRUE]
      [] raw.r = "Exclusive" ->
            MarkedExclusive(Expected(raw.raw_schema), raw.exclusion_group)
      [] raw.r = "All" ->
            AllValidator([i \in 1..Len(raw.raw_schemas) |-> Expected(raw.raw_schemas[i])],
                         FALSE)
      [] raw.r = "Any" ->
            AnyValidator([i \in 1..Len(raw.raw_schemas) |-> Expected(raw.raw_schemas[i])],
                         FALSE)
      [] raw.r = "Self" -> SelfValidator
C19_Compile ==
    (pc # "start" /\ raw_schema # NoRaw) =>
        IF Malformed(raw_schema)
        THEN pc = "failed" /\ result.st = "exc"
        ELSE pc # "failed" /\ Root = Expected(raw_schema)

(* C20: whatever the interleaving of the steps of the validation calls     *)
(* that run on one compiled Schema, the outcome of each call (the returned *)
(* data, or the raised error with its kind, sub-errors and paths) is the   *)
(* outcome of that call run alone.                                         *)
Alone(d) == Validate(schema, ids, Root, d, MaxDepth)
C20_Isolation ==
    \A c \in DOMAIN calls :
        calls[c].pc = "done" => calls[c].result = Alone(calls[c].data)
C20_Witness ==
    \E c, o \in DOMAIN calls :
        /\ c # o
        /\ calls[c].pc = "done" /\ calls[o].pc = "done"
        /\ calls[c].overlapped /\ calls[o].overlapped
        /\ calls[c].data # calls[o].data
        /\ calls[c].result.st = "err"
        /\ calls[c].result.error.kind = "Multiple"
        /\ calls[o].result.st = "ok"

(* C21: when a key validator accepts an input key and the paired value     *)
(* validator rejects the value, the call fails, the error of the value is  *)
(* reported once with the key prepended to its path, no Unknown-key error  *)
(* is reported for the key, and the key validator does not count as        *)
(* matched: when it is required and every key it accepted had its value    *)
(* rejected, a Missing-key error is reported for it.                       *)
\* the position of the key validator that accepts key k, the first in order
Acceptor(k) ==
    SeqMin({i \in 1..Len(Root.validators) : Sub(Root.validators[i].key, k).st # "err"})
\* the value of key k is rejected by the value validator paired with its acceptor
ValueError(k) == Sub(Root.validators[Acceptor(k)].value, data.m[k]).error
ValueReported(k) ==
    /\ result.st = "err"
    /\ Count(RootErrors, LAMBDA e : e.path # <<>> /\ e.path[1] = k) = 1
    /\ Count(RootErrors, LAMBDA e : e = AppendLeft(ValueError(k), k)) = 1
    /\ Count(RootErrors, LAMBDA e : IsUnknown(k, e) /\ e.path = <<>>) = 0
\* key validator j accepted keys, and the value of each of them was rejected
OnlyRejected(j) ==
    /\ \E k \in RejectedValue : Acceptor(k) = j
    /\ \A k \in DOMAIN data.m \ Unaccepted : Acceptor(k) = j => k \in RejectedValue
C21_ValueRejected ==
    (Ended /\ Root.kind = "Dict" /\ data.t = "dict") =>
        /\ \A k \in RejectedValue : ValueReported(k)
        /\ \A j \in 1..Len(Root.validators) :
              (OnlyRejected(j) /\ ~Root.validators[j].key.optional) =>
                  Count(RootErrors, LAMBDA e : IsMissing(Root.validators[j].key, e)) = 1

(* C21, amended: when a key validator accepts an input key and the paired  *)
(* value validator rejects the value, the call fails, the error of the     *)
(* value is reported once with the key prepended to its path, no           *)
(* Unknown-key error is reported for the key, and the key validator counts *)
(* as matched: no Missing-key error is reported for it.                    *)
C21_ValueRejectedMatched ==
    (Ended /\ Root.kind = "Dict" /\ data.t = "dict") =>
        \A k \in RejectedValue :
            /\ ValueReported(k)
            /\ Count(RootErrors,
                     LAMBDA e : IsMissing(Root.validators[Acceptor(k)].key, e)) = 0
C21_Witness ==
    /\ Ended /\ Root.kind = "Dict" /\ data.t = "dict"
    /\ Len(Root.validators) = 2
    /\ OnlyRejected(1) /\ ~Root.validators[1].key.optional
    /\ 2 \in Unmatched
    /\ result.error.kind = "Multiple"
    /\ Len(RootErrors) = 2
    /\ RootErrors[2].kind = "MissingKey"

(* C22: for each input key of a mapping the key validators are tried in    *)
(* declaration order and the first that accepts the key is final: the      *)
(* value is validated by the value validator paired with it and by no      *)
(* other; when that one rejects the value its error is reported, also when *)
(* a later key validator accepts the key and its value validator accepts   *)
(* the value, and when the call succeeds the entry holds its output.       *)
\* the key validators after the acceptor of k whose pair would accept k's entry
LaterPairs(k) ==
    {i \in (Acceptor(k) + 1)..Len(Root.validators) :
        /\ Sub(Root.validators[i].key, k).st = "ok"
        /\ Sub(Root.validators[i].value, data.m[k]).st = "ok"}
\* the key under which the entry of k is stored, and the value stored
NewKey(k) == Sub(Root.validators[Acceptor(k)].key, k).data
NewValue(k) == Sub(Root.validators[Acceptor(k)].value, data.m[k]).data
C22_FirstMatch ==
    (Ended /\ Root.kind = "Dict" /\ data.t = "dict") =>
        \A k \in DOMAIN data.m \ Unaccepted :
            /\ k \in RejectedValue =>
                  /\ result.st = "err"
                  /\ Count(RootErrors, LAMBDA e : e = AppendLeft(ValueError(k), k)) = 1
            /\ k \notin RejectedValue =>
                  Count(RootErrors, LAMBDA e : e.path # <<>> /\ e.path[1] = k) = 0
            /\ (result.st = "ok"
                  /\ \A k2 \in DOMAIN data.m \ {k} : NewKey(k2) # NewKey(k)) =>
                  /\ NewKey(k) \in DOMAIN result.data.m
                  /\ result.data.m[NewKey(k)] = NewValue(k)
C22_Witness ==
    /\ Ended /\ Root.kind = "Dict" /\ data.t = "dict"
    /\ \E k \in RejectedValue : LaterPairs(k) # {}
    /\ result.st = "err"

(* C23: the errors of a mapping validation come in an order fixed by the   *)
(* compiled schema and the data: first the errors of the input keys (value *)
(* failures and Unknown-key errors) in ascending order of input key, then  *)
(* the Missing-key errors, in the iteration order that the set of key      *)
(* validators has for this compiled schema.                                *)
IsMissingError(e) == e.kind = "MissingKey" /\ e.path = <<>>
\* the input key an error of the root mapping is about
KeyOf(e) == IF e.path # <<>> THEN e.path[1] ELSE e.key
\* the position of the key validator a Missing-key error names
MissingPosition(e) ==
    CHOOSE j \in 1..Len(Root.validators) : Root.validators[j].key = e.key_validator
C23_ErrorOrder ==
    (Ended /\ Root.kind = "Dict" /\ data.t = "dict") =>
        \A n, m \in 1..Len(RootErrors) :
            n < m =>
                LET e == RootErrors[n]
                    f == RootErrors[m]
                IN  /\ IsMissingError(e) => IsMissingError(f)
                    /\ (~IsMissingError(e) /\ ~IsMissingError(f)) =>
                          /\ {KeyOf(e), KeyOf(f)} \subseteq DOMAIN data.m
                          /\ KeyLess(KeyOf(e), KeyOf(f))
                    /\ (IsMissingError(e) /\ IsMissingError(f)) =>
                          ids[MissingPosition(e)] < ids[MissingPosition(f)]
C23_Witness ==
    /\ Ended /\ Root.kind = "Dict" /\ data.t = "dict"
    /\ Len(RootErrors) = 3
    /\ ~IsMissingError(RootErrors[1])
    /\ IsMissingError(RootErrors[2]) /\ IsMissingError(RootErrors[3])
    /\ MissingPosition(RootErrors[2]) = 2
    /\ ids[2] < ids[1]

(* C24: an exclusion group of which no member matched gives no Exclusive   *)
(* error: with the required keys 'a' and 'b' in one group, the empty       *)
(* mapping fails with one Missing-key error for each of them and with      *)
(* nothing else.                                                           *)
C24_ZeroMatches ==
    raw_schema = ExclusivePair =>
        /\ pc # "failed"
        /\ (Called /\ data = EmptyDict) =>
              /\ result.st = "err"
              /\ \A e \in AllErrors(result.error) : e.kind # "Exclusive"
              /\ Len(RootErrors) = 2
              /\ \A j \in 1..2 :
                    Count(RootErrors,
                          LAMBDA e : IsMissing(Root.validators[j].key, e)) = 1

(* C25: a leaf validator fails only with the error kind of its own         *)
(* variant, for every data: Literal with a Literal error, TypeCheck with a *)
(* Type error, Pattern with a Match error, FunctionTransform with a        *)
(* Function error, LengthBound with a Length error, never an aggregate.    *)
LeafKinds == {"Literal", "Type", "Regex", "Function", "Length"}
OwnKind(v) ==
    CASE v.kind = "Literal" -> "Literal"
      [] v.kind = "Type" -> "Type"
      [] v.kind = "Regex" -> "Match"
      [] v.kind = "Function" -> "Function"
      [] v.kind = "Length" -> "Length"
C25_OwnKind ==
    (Called /\ Root.kind \in LeafKinds /\ result.st = "err") =>
        result.error.kind = OwnKind(Root)

(* C25, amended: a leaf validator that raises a validation error raises    *)
(* one error, never an aggregate, with an empty path, naming the validator *)
(* and the data: of its own kind for Literal, TypeCheck, FunctionTransform *)
(* and LengthBound; for Pattern a Type error when the data is not a string *)
(* and a Match error when it is a string that does not match.              *)
C25_OwnKindOrType ==
    (Called /\ Root.kind \in LeafKinds /\ result.st = "err") =>
        /\ result.error.kind =
              IF Root.kind = "Regex" /\ data.t # "str" THEN "Type" ELSE OwnKind(Root)
        /\ result.error.validator = Root
        /\ result.error.data = data
        /\ result.error.path = <<>>
C25_Witness ==
    /\ Called /\ Root.kind = "Regex" /\ data.t = "int"
    /\ result = Err(ValidationTypeError(Root, data))

(* C26: once a schema is constructed, no validation call, successful or    *)
(* failing, and no return from one changes the compiled validator tree,    *)
(* the root reference, the formatter table or the raw schema: a step taken *)
(* after construction leaves them as they were.                            *)
\* a step taken from a state in which the schema is constructed
FrameStep ==
    pc \in {"ready", "done"} =>
        /\ schema'.validator = schema.validator
        /\ schema'.formatters = schema.formatters
        /\ raw_schema' = raw_schema
        /\ ids' = ids
C26_Frame == [][FrameStep]_vars
C26_Witness ==
    /\ Called /\ result.st = "err"
    /\ result.error.kind = "Multiple"
    /\ raw_schema # NoRaw
    /\ Root.kind = "Dict"
    /\ schema = [validator |-> Compile(raw_schema).value,
                 formatters |-> DEFAULT_FORMATTERS]

(* C27: every error of a failed call, the raised error and every sub-error *)
(* of an aggregate at any depth, has as path the whole sequence of keys    *)
(* and indices from the root of the input data to the failure site: the    *)
(* path leads from the input data to a piece of it, which is the data of   *)
(* the error, or the mapping that has the unknown key or lacks the missing *)
(* one.  Stated for schemas without functions, where the data of an error  *)
(* is the piece of the input found at the failure site.                    *)
Nowhere == [t |-> "nowhere"]
\* the piece of d that the path leads to
RECURSIVE DataAt(_, _)
DataAt(d, path) ==
    IF path = <<>> THEN d
    ELSE LET f == Head(path)
         IN  IF d.t = "dict" /\ f \in DOMAIN d.m
             THEN DataAt(d.m[f], Tail(path))
             ELSE IF d.t = "list" /\ f.t = "int" /\ f.i + 1 \in 1..Len(d.l)
             THEN DataAt(d.l[f.i + 1], Tail(path))
             ELSE Nowhere
AtSite(e) ==
    LET site == DataAt(data, e.path)
    IN  CASE e.kind = "UnknownKey" -> site.t = "dict" /\ e.key \in DOMAIN site.m
          [] e.kind = "MissingKey" -> site.t = "dict"
          [] OTHER -> e.data = site
C27_PathComplete ==
    (Called /\ result.st = "err" /\ ~HasFunction(Root)) =>
        \A e \in AllErrors(result.error) : AtSite(e)

(* C28: when a composite validator (List, Dict, All or Any) raises an      *)
(* aggregate error, the data of the aggregate is the data that was passed  *)
(* to that validator, not a value transformed by a sub-validator.          *)
RaisedAggregate ==
    /\ Called /\ result.st = "err"
    /\ result.error.kind = "Multiple"
    /\ result.error.validator = Root
    /\ result.error.path = <<>>
    /\ Root.kind \in {"List", "Dict", "All", "Any"}
C28_AggregateData == RaisedAggregate => result.error.data = data

(* C29: when a mapping validation succeeds, the output has one entry for   *)
(* each input key, as many as the input, and the entry of an input key     *)
(* holds the normalized value of that key: no entry is lost or overwritten *)
(* by the entry of another key.                                            *)
C29_OneEntryPerKey ==
    (Called /\ Root.kind = "Dict" /\ data.t = "dict" /\ result.st = "ok") =>
        /\ Cardinality(DOMAIN result.data.m) = Cardinality(DOMAIN data.m)
        /\ \A k \in DOMAIN data.m :
              /\ NewKey(k) \in DOMAIN result.data.m
              /\ result.data.m[NewKey(k)] = NewValue(k)

(* C30: for a schema without a FunctionTransform node, every successful    *)
(* validation returns data equal to its input: the leaves return the data  *)
(* unchanged, and List, Dict, All, Any and Self rebuild a value equal to   *)
(* the input.                                                              *)
C30_OutputIsInput ==
    (Called /\ result.st = "ok" /\ ~HasFunction(Root)) => result.data = data
C30_Witness ==
    /\ Called /\ result.st = "ok" /\ ~HasFunction(Root)
    /\ Root.kind = "Dict" /\ data.t = "dict"
    /\ Cardinality(DOMAIN data.m) = 2
    /\ \E j \in 1..Len(Root.validators) : Root.validators[j].value.kind = "Self"
    /\ \E k \in DOMAIN data.m : data.m[k].t = "dict"
    /\ result.data = data

====
